---------------------------- MODULE Spec2Model ----------------------------
(***************************************************************************)
(* Analytical gas profiles around a black hole (AnalyticalSol/*.py).       *)
(*                                                                         *)
(* The scripts compute with IEEE binary floating point (Python float,      *)
(* numpy.float64).  The model keeps what decides the properties of the     *)
(* profiles: every arithmetic operation rounds its exact result to the     *)
(* nearest number with Prec significant bits (ties to even), x/0 is an     *)
(* infinity, 0/0 and inf-inf and a fractional power of a negative number   *)
(* are NaN, and NaN compares unequal to everything.  The exponent range is *)
(* not bounded (no overflow, no underflow), and the exponent of a power    *)
(* (gamma, gamma-1, 1/(gamma-1), 1-gamma) is the exact rational.           *)
(*                                                                         *)
(* Spec runs the three scripts statement by statement; the parameter       *)
(* blocks (M_bh, epsilon, gamma, T_amb) and cooltable.dat are its inputs.  *)
(* SpecAPI calls the functions of polytropic_sol.py and isothermal_sol.py  *)
(* on arrays of radii and temperatures.                                    *)
(*                                                                         *)
(* SpecCombine runs the two combine_plots.py scripts (spherical_profile_3d *)
(* and comparision_profile): the folders of input images, the data folder, *)
(* the video codecs and img2pdf are its inputs.                            *)
(***************************************************************************)
EXTENDS Integers, Sequences, FiniteSets, TLC

VARIABLES
  script,    \* the script that runs: "isothermal", "polytropic", "unit_conversion",
             \* or one of the two combine_plots.py
  at,        \* the statement the script is at ("api": its functions are being called)
  globals,   \* the script's module-level names: constants, parameters, derived values
  file,      \* cooltable.dat beside the script
  fileOpen,  \* whether cooltable.dat is open
  loads,     \* how many times cooltable.dat has been read
  data,      \* what np.loadtxt returned
  tab,       \* the cooling table and the interpolant built from it
  radii,     \* r, the radius array
  tq,        \* the temperature array handed to cool_lambda
  out,       \* the last evaluation: [fn, v (the array returned), p (the lines printed)]
  log,       \* standard output: the source lines of the prints executed
  saved,     \* whether the figure has been written
  disk,      \* combine_plots.py: the source folders, their images, the data folder,
             \* the video and the PDF
  env,       \* combine_plots.py: the entry point, the codecs OpenCV has, img2pdf
  made,      \* combine_plots.py: what the run has created, in order
  run        \* combine_plots.py: the locals of the run and its exit status

\* The state of a run of combine_plots.py.
media == <<disk, env, made, run>>

vars == <<script, at, globals, file, fileOpen, loads, data, tab, radii, tq, out, log, saved,
          media>>

\* Significant bits of a number (numpy.float64 has 53).
Prec == 4
\* Significant bits of the working precision in which a literal and exp are
\* evaluated before the one rounding to Prec bits.
Wide == Prec + 9

----------------------------------------------------------------------------
(* Floating-point numbers: [c, m, e] is m * 2^e when c = FIN (m = 0, or    *)
(* 2^(p-1) <= |m| < 2^p at precision p); c = PINF, NINF, NAN otherwise.    *)

FIN == "fin"
PINF == "+inf"
NINF == "-inf"
NAN == "nan"

Fin(m, e) == [c |-> FIN, m |-> m, e |-> e]
Zero == Fin(0, 0)
PosInf == [c |-> PINF, m |-> 0, e |-> 0]
NegInf == [c |-> NINF, m |-> 0, e |-> 0]
NaN == [c |-> NAN, m |-> 0, e |-> 0]

IsNaN(x) == x.c = NAN
IsFinite(x) == x.c = FIN
IsInf(x) == x.c = PINF \/ x.c = NINF
Sgn(x) == CASE x.c = PINF -> 1
            [] x.c = NINF -> -1
            [] x.c = NAN -> 0
            [] OTHER -> IF x.m > 0 THEN 1 ELSE IF x.m < 0 THEN -1 ELSE 0
Abs(n) == IF n < 0 THEN -n ELSE n

\* The element of a one-element set: The({f(x) : x \in {e}}) is f(e), with e
\* evaluated once.
The(S) == CHOOSE z \in S : TRUE

\* An array with its elements evaluated.
Array(s) == s \o <<>>

\* The number of bits of n, 0 <= n < 2^31.
BitLen(n) == CHOOSE b \in 0..31 : (b = 31 \/ n < 2^b) /\ (b = 0 \/ n >= 2^(b - 1))

\* sg * (n + d) * 2^e rounded to p bits, 0 < d < 1 when sticky and d = 0
\* otherwise; n has b bits, at least p+2 of them when sticky.
RoundBits(p, sg, n, e, sticky, b) ==
  IF b <= p THEN Fin(sg * n * 2^(p - b), e - (p - b))
  ELSE LET s == b - p
           q == n \div 2^s
           rem == n % 2^s
           half == 2^(s - 1)
           up == rem > half \/ (rem = half /\ (sticky \/ q % 2 = 1))
       IN IF up /\ q + 1 = 2^p THEN Fin(sg * 2^(p - 1), e + s + 1)
          ELSE Fin(sg * (IF up THEN q + 1 ELSE q), e + s)

RoundP(p, sg, n, e, sticky) ==
  IF n = 0 THEN Zero
  ELSE The({RoundBits(p, sg, n, e, sticky, b) : b \in {BitLen(n)}})

\* x at precision p (exact when x has at most p bits).
ToPrecP(p, x) ==
  IF x.c # FIN THEN x
  ELSE RoundP(p, IF x.m < 0 THEN -1 ELSE 1, Abs(x.m), x.e, FALSE)

FNegate(x0) == The({
  CASE x.c = PINF -> NegInf
    [] x.c = NINF -> PosInf
    [] x.c = NAN -> NaN
    [] OTHER -> Fin(-x.m, x.e)
  : x \in {x0}})

\* Comparisons; every comparison with a NaN is false.
FLtP(x, y) ==
  CASE x.c = NAN \/ y.c = NAN -> FALSE
    [] x.c = PINF \/ y.c = NINF -> FALSE
    [] x.c = NINF \/ y.c = PINF -> TRUE
    [] Sgn(x) # Sgn(y) -> Sgn(x) < Sgn(y)
    [] Sgn(x) = 0 -> FALSE
    [] Sgn(x) > 0 -> x.e < y.e \/ (x.e = y.e /\ x.m < y.m)
    [] OTHER -> x.e > y.e \/ (x.e = y.e /\ x.m < y.m)

----------------------------------------------------------------------------
(* A call: Call(f, a) evaluates the arguments a, once, and then the body   *)
(* of f on them.  The arithmetic below and the functions of the scripts    *)
(* are called through it.                                                  *)

RECURSIVE Call(_, _)

Round(p, sg, n, e, sticky) == Call("Round", <<p, sg, n, e, sticky>>)
ToPrec(p, x) == Call("ToPrec", <<p, x>>)
FromInt(p, n) == Call("Round", <<p, IF n < 0 THEN -1 ELSE 1, Abs(n), 0, FALSE>>)
FLt(x, y) == Call("FLt", <<x, y>>)
FEq(x, y) == \E a \in {<<x, y>>} : a[1].c # NAN /\ a[2].c # NAN /\ a[1] = a[2]
FLe(x, y) == \E a \in {<<x, y>>} : FLt(a[1], a[2]) \/ FEq(a[1], a[2])

\* The arithmetic of the scripts, in Prec bits.
FAdd(x, y) == Call("FAddP", <<Prec, x, y>>)
FSub(x, y) == Call("FAddP", <<Prec, x, FNegate(y)>>)
FMul(x, y) == Call("FMulP", <<Prec, x, y>>)
FDiv(x, y) == Call("FDivP", <<Prec, x, y>>)
FSqrt(x) == Call("FSqrtP", <<Prec, x>>)
FPow(x, a, b) == Call("FPowP", <<Prec, x, a, b>>)
FExp(x) == Call("FExpP", <<Prec, x>>)
\* A decimal literal d e k (6.67e-8 is Dec(667, -10)), |k| < 64.
Dec(d, k) == Call("Dec", <<d, k>>)
\* The same in Wide bits.
WAdd(x, y) == Call("FAddP", <<Wide, x, y>>)
WSub(x, y) == Call("FAddP", <<Wide, x, FNegate(y)>>)
WMul(x, y) == Call("FMulP", <<Wide, x, y>>)
WDiv(x, y) == Call("FDivP", <<Wide, x, y>>)

\* x and y have at most p bits.
FAddP(p, x0, y0) == The({
  CASE x.c = NAN \/ y.c = NAN -> NaN
    [] x.c = PINF -> IF y.c = NINF THEN NaN ELSE PosInf
    [] x.c = NINF -> IF y.c = PINF THEN NaN ELSE NegInf
    [] y.c # FIN -> y
    [] x.m = 0 -> y
    [] y.m = 0 -> x
    [] OTHER ->
       LET hi == IF x.e >= y.e THEN x ELSE y
           lo == IF x.e >= y.e THEN y ELSE x
           d == hi.e - lo.e
       IN IF d > p + 1 THEN hi
          ELSE The({Round(p, IF n < 0 THEN -1 ELSE 1, Abs(n), lo.e, FALSE) :
                      n \in {hi.m * 2^d + lo.m}})
  : x \in {ToPrec(p, x0)}, y \in {ToPrec(p, y0)}})

FMulP(p, x, y) ==
  CASE x.c = NAN \/ y.c = NAN -> NaN
    [] x.c # FIN \/ y.c # FIN ->
         IF Sgn(x) * Sgn(y) = 0 THEN NaN
         ELSE IF Sgn(x) * Sgn(y) > 0 THEN PosInf ELSE NegInf
    [] OTHER -> Round(p, IF Sgn(x) * Sgn(y) < 0 THEN -1 ELSE 1,
                      Abs(x.m) * Abs(y.m), x.e + y.e, FALSE)

\* A zero divisor is +0: numpy returns an infinity (or NaN for 0/0) and goes on.
FDivP(p, x0, y0) == The({
  CASE x.c = NAN \/ y.c = NAN -> NaN
    [] x.c # FIN -> IF y.c # FIN THEN NaN
                    ELSE IF Sgn(x) * (IF y.m < 0 THEN -1 ELSE 1) > 0
                         THEN PosInf ELSE NegInf
    [] y.c # FIN -> Zero
    [] y.m = 0 -> IF x.m = 0 THEN NaN ELSE IF x.m > 0 THEN PosInf ELSE NegInf
    [] x.m = 0 -> Zero
    [] OTHER ->
       LET a == Abs(x.m) * 2^(p + 2)
           b == Abs(y.m)
       IN Round(p, IF Sgn(x) * Sgn(y) < 0 THEN -1 ELSE 1, a \div b,
                x.e - y.e - (p + 2), a % b # 0)
  : x \in {ToPrec(p, x0)}, y \in {ToPrec(p, y0)}})

RECURSIVE IRoot(_, _)
\* The largest s with s^q <= n.
IRoot(n0, q) == The({
  IF n < 2^q THEN (IF n >= 1 THEN 1 ELSE 0)
  ELSE The({IF (s + 1)^q <= n THEN s + 1 ELSE s : s \in {2 * IRoot(n \div 2^q, q)}})
  : n \in {n0}})

\* numpy.sqrt
FSqrtP(p, x) ==
  CASE x.c = NAN \/ x.c = NINF -> NaN
    [] x.c = PINF -> PosInf
    [] x.m < 0 -> NaN
    [] x.m = 0 -> Zero
    [] OTHER ->
       LET k == IF (x.e - (p + 4)) % 2 = 0 THEN p + 4 ELSE p + 5
           n == x.m * 2^k
       IN The({Round(p, 1, s, (x.e - k) \div 2, s * s # n) : s \in {IRoot(n, 2)}})

\* m * 2^e to the power a/b in p bits: m > 0, a/b in lowest terms, a, b > 0.
PowPos(p, m, e, a, b) ==
  LET e0 == e * a
      need == b * (p + 1) + 1
      Root(n0, k) ==
        LET n == n0 * 2^k
        IN The({Round(p, 1, s, (e0 - k) \div b, s^b # n) : s \in {IRoot(n, b)}})
      Scaled(n0, k0) == The({Root(n0, k) : k \in {k0 + ((e0 - k0) % b)}})
      Pow(n0) ==
        The({Scaled(n0, IF l >= need THEN 0 ELSE need - l) : l \in {BitLen(n0)}})
  IN The({Pow(n0) : n0 \in {m ^ a}})

\* numpy's power x ** (a/b), a/b in lowest terms and b > 0: NaN for a
\* negative x and a fractional exponent.
FPowP(p, x, a, b) ==
  CASE x.c = NAN -> NaN
    [] a = 0 -> FromInt(p, 1)
    [] x.c = PINF -> IF a > 0 THEN PosInf ELSE Zero
    [] x.c = NINF -> IF a < 0 THEN Zero
                     ELSE IF b = 1 /\ a % 2 = 1 THEN NegInf ELSE PosInf
    [] x.m = 0 -> IF a > 0 THEN Zero ELSE PosInf
    [] x.m < 0 /\ b # 1 -> NaN
    [] OTHER ->
       The({The({IF a > 0 THEN s ELSE Call("FDivP", <<p, FromInt(p, 1), s>>) :
                   s \in {IF x.m < 0 /\ a % 2 = 1 THEN Fin(-y.m, y.e) ELSE y}}) :
              y \in {PowPos(p, Abs(x.m), x.e, Abs(a), b)}})

\* The integer nearest to a finite x.
Nearest(x0) == The({
  IF x.e >= 0 THEN x.m * 2^x.e
  ELSE IF -x.e >= 30 THEN 0
       ELSE (x.m + 2^(-x.e - 1)) \div 2^(-x.e)
  : x \in {x0}})

\* ln 2 to Wide bits: 11357 / 2^14.
Ln2 == ToPrec(Wide, Fin(11357, -14))

\* 1 + r/i * (1 + r/(i+1) * (... (1 + r/n * acc))): the Taylor series of e^r.
Taylor(r, i, n, acc) ==
  IF n < i THEN acc
  ELSE Call("Taylor", <<r, i, n - 1,
                        WAdd(FromInt(Wide, 1), WMul(WDiv(r, FromInt(Wide, n)), acc))>>)

\* numpy.exp: 2^n * e^r with x = n ln 2 + r, e^r by its Taylor series in
\* Wide bits, rounded once to p bits.  The result is within a unit in the
\* last place of e^x (numpy's is not correctly rounded either).
FExpP(p, x) ==
  CASE x.c = NAN -> NaN
    [] x.c = PINF -> PosInf
    [] x.c = NINF -> Zero
    [] x.m = 0 -> FromInt(p, 1)
    [] OTHER ->
       LET Reduced(w, n) ==
             The({Fin(y.m, y.e + n) :
                    y \in {ToPrec(p, Taylor(WSub(w, WMul(FromInt(Wide, n), Ln2)),
                                            1, 6, FromInt(Wide, 1)))}})
       IN The({The({Reduced(w, n) : n \in {Nearest(WDiv(w, Ln2))}}) :
                 w \in {ToPrec(Wide, x)}})

RECURSIVE TenTo(_)
\* 10^k in Wide bits, k >= 0.
TenTo(k) ==
  IF k <= 9 THEN FromInt(Wide, 10^k)
  ELSE WMul(FromInt(Wide, 10^9), TenTo(k - 9))

\* The literal is evaluated in Wide bits and rounded to Prec bits.
DecP(d, k) ==
  ToPrec(Prec, IF k >= 0 THEN WMul(FromInt(Wide, d), TenTo(k))
               ELSE WDiv(FromInt(Wide, d), TenTo(-k)))

----------------------------------------------------------------------------
(* Constants of the scripts (CGS), lines 8-16 of each.                     *)

G == Dec(667, -10)
kB == Dec(138, -18)
mp == Dec(167, -26)
pc == Dec(3086, 15)
kpc == Dec(3086, 18)
Msun == Dec(1989, 30)
mu == Dec(10, -1)
s_yr == Dec(3154, 4)

One == FromInt(Prec, 1)
Two == FromInt(Prec, 2)
MinusOne == FromInt(Prec, -1)

\* Number of radius samples of np.linspace (10000 in the scripts).
GridN == 3
\* Length of a radius array handed to a profile function through the API.
ArrLen == 2

Last(s) == s[Len(s)]

\* np.linspace(a, b, n), n > 1: arange(0, n) * step + a, the last sample set to b.
linspace(a, b, n) ==
  The({Array([i \in 1..n |-> IF i = n THEN b
                             ELSE FAdd(FMul(FromInt(Prec, i - 1), step), a)]) :
         step \in {FDiv(FSub(b, a), FromInt(Prec, n - 1))}})

\* The exponents of the powers, exact rationals <<a, b>> with b > 0.
QInv(q) == IF q[1] > 0 THEN <<q[2], q[1]>> ELSE <<-q[2], -q[1]>>
QMinusOne(q) == <<q[1] - q[2], q[2]>>
\* The exponent gamma - 1 in the place of 1 - gamma.
QGammaMinusOne(q) == <<q[1] - q[2], q[2]>>
QOneMinus(q) == <<q[2] - q[1], q[2]>>
QPow(x, q) == FPow(x, q[1], q[2])

\* The names every script defines first.
Constants ==
  [G |-> G, kB |-> kB, mp |-> mp, pc |-> pc, kpc |-> kpc, Msun |-> Msun,
   mu |-> mu, s_yr |-> s_yr]

----------------------------------------------------------------------------
(* polytropic_sol.py: module-level names.  The parameter block's black     *)
(* hole mass, softening length and polytropic index are the inputs.        *)

PolytropicModule(c, M_bh, epsilon, gq) ==
  LET gamma == FDiv(FromInt(Prec, gq[1]), FromInt(Prec, gq[2]))
      v_bh == FMul(Dec(1000, 0), Dec(1, 5))
      r_vir == FMul(Dec(1, 3), c.pc)
      T_vir == FDiv(FMul(FMul(c.G, M_bh), c.mp), FMul(r_vir, c.kB))
      rho_cgm == FMul(Dec(1, -3), c.mp)
      T_cgm == Dec(1, 6)
      rho_vir == FDiv(FMul(rho_cgm, T_cgm), T_vir)
      T0 == Dec(1, 7)
  IN c @@
     [gq |-> gq, gamma |-> gamma, gm1 |-> FSub(gamma, One), v_bh |-> v_bh,
      M_bh |-> M_bh,
      R_bondi |-> FDiv(FMul(FMul(Two, c.G), M_bh), FPow(v_bh, 2, 1)),
      epsilon |-> epsilon, r_vir |-> r_vir, T_vir |-> T_vir,
      rho_cgm |-> rho_cgm, T_cgm |-> T_cgm, rho_vir |-> rho_vir,
      K |-> FMul(FDiv(FMul(c.kB, T_vir), FMul(c.mu, c.mp)),
                 QPow(rho_vir, QOneMinus(gq))),
      T0 |-> T0,
      rho0 |-> FMul(rho_vir, QPow(FDiv(T0, T_vir), QInv(QMinusOne(gq))))]

\* The prints of the module-level statements before the cooling table.
PolytropicPrints == <<22, 28, 34, 38, 43>>

\* Phi(r) as line 61 has it, commented out: no softening.
Phi_point(g, x) == FDiv(FMul(FMul(MinusOne, g.G), g.M_bh), x)

\* Phi(r) for one radius.
Phi(g, x) ==
  FDiv(FMul(FMul(MinusOne, g.G), g.M_bh),
       FSqrt(FAdd(FPow(x, 2, 1), FPow(g.epsilon, 2, 1))))

\* Phi(r) for a radius array.
PhiArray(g, rr) ==
  [v |-> Array([i \in DOMAIN rr |-> Phi(g, rr[i])]), p |-> <<>>]

\* The bracketed term -(gm1/(K*gamma))*Phi(x) of rho.
rho_term(g, x) ==
  FMul(FMul(MinusOne, FDiv(g.gm1, FMul(g.K, g.gamma))), Phi(g, x))

\* rho(r) as lines 65-71 have it, commented out: the reference point is
\* r = 0 with the density rho0 there.
rho_central(g, rr) ==
  LET ex == QInv(QMinusOne(g.gq))
      Density(term1, term2) ==
        [v |-> Array([i \in DOMAIN rr |->
                        FSub(FAdd(g.rho0, QPow(term1[i], ex)), QPow(term2, ex))]),
         p |-> IF (\E i \in DOMAIN rr : FLt(term1[i], Zero)) \/ FLt(term2, Zero)
               THEN <<68, 69, 70>> ELSE <<70>>]
  IN The({Density(term1, term2) :
            term1 \in {Array([i \in DOMAIN rr |-> rho_term(g, rr[i])])},
            term2 \in {rho_term(g, Zero)}})

\* rho(r) for a radius array: the array returned and the lines printed, in
\* order.  Line 75 takes the power of term1 before line 76 tests the signs.
rho(g, rr) ==
  LET ex == QInv(QMinusOne(g.gq))
      Density(term1, term2) ==
        [v |-> Array([i \in DOMAIN rr |->
                        FSub(FAdd(g.rho_vir, QPow(term1[i], ex)), QPow(term2, ex))]),
         p |-> <<75>>
               \o (IF (\E i \in DOMAIN rr : FLt(term1[i], Zero)) \/ FLt(term2, Zero)
                   THEN <<77, 78>> ELSE <<>>)
               \o <<79>>]
  IN The({Density(term1, term2) :
            term1 \in {Array([i \in DOMAIN rr |-> rho_term(g, rr[i])])},
            term2 \in {rho_term(g, g.r_vir)}})

\* pressure with the exponent gamma - 1 in the place of gamma.
pressure_gm1(g, rr) ==
  The({[v |-> Array([i \in DOMAIN rr |-> FMul(g.K, QPow(d.v[i], QMinusOne(g.gq)))]),
        p |-> d.p] :
         d \in {Call("rho", <<g, rr>>)}})

pressure(g, rr) ==
  The({[v |-> Array([i \in DOMAIN rr |-> FMul(g.K, QPow(d.v[i], g.gq))]),
        p |-> d.p] :
         d \in {Call("rho", <<g, rr>>)}})

Temperature(g, rr) ==
  The({[v |-> Array([i \in DOMAIN rr |->
                       FMul(FDiv(FMul(FMul(g.K, g.mu), g.mp), g.kB),
                            QPow(d.v[i], QMinusOne(g.gq)))]),
        p |-> d.p] :
         d \in {Call("rho", <<g, rr>>)}})

entropy(g, rr) ==
  The({[v |-> Array([i \in DOMAIN rr |-> FDiv(pr.v[i], QPow(d.v[i], g.gq))]),
        p |-> pr.p \o d.p] :
         pr \in {Call("pressure", <<g, rr>>)}, d \in {Call("rho", <<g, rr>>)}})

free_fall_time(g, rr) ==
  [v |-> Array([i \in DOMAIN rr |->
            FSqrt(FDiv(FPow(FAdd(FPow(rr[i], 2, 1), FPow(g.epsilon, 2, 1)), 3, 2),
                       FMul(FMul(Two, g.G), g.M_bh)))]),
   p |-> <<>>]

----------------------------------------------------------------------------
(* The cooling table: np.loadtxt and scipy's interp1d(kind='linear',       *)
(* bounds_error=False, fill_value='extrapolate').                          *)

\* A token of a line of cooltable.dat: a number, or text that is no number.
Num(x) == [num |-> TRUE, v |-> x]
Text == [num |-> FALSE, v |-> Zero]

\* The lines that hold data (np.loadtxt skips the empty ones).
DataLines(f) == SelectSeq(f.lines, LAMBDA l : Len(l) > 0)

\* np.loadtxt: "error" for a file that is missing, holds text that is no
\* number or lines of different lengths; else the array, of dimension 1
\* when the file holds no line, one line or one column.
loadtxt(f) ==
  LET ls == DataLines(f)
  IN IF ~f.exists THEN [ok |-> FALSE, ndim |-> 0, rows |-> <<>>]
     ELSE IF \E i \in DOMAIN ls : \E j \in DOMAIN ls[i] : ~ls[i][j].num
            THEN [ok |-> FALSE, ndim |-> 0, rows |-> <<>>]
     ELSE IF \E i \in DOMAIN ls : Len(ls[i]) # Len(ls[1])
            THEN [ok |-> FALSE, ndim |-> 0, rows |-> <<>>]
     ELSE [ok |-> TRUE,
           ndim |-> IF Len(ls) <= 1 \/ Len(ls[1]) = 1 THEN 1 ELSE 2,
           rows |-> [i \in DOMAIN ls |-> [j \in DOMAIN ls[i] |-> ls[i][j].v]]]

RECURSIVE InsertRow(_, _)
\* Row w put into the rows s, sorted by temperature, after the rows that are
\* not above it (argsort(kind="mergesort") is stable).
InsertRow(s, w) ==
  IF s = <<>> THEN <<w>>
  ELSE IF FLt(w[1], Last(s)[1]) THEN InsertRow(SubSeq(s, 1, Len(s) - 1), w) \o <<Last(s)>>
       ELSE s \o <<w>>

\* The rows as they are in the file (assume_sorted=True).
FileOrder(s) == s

RECURSIVE SortRows(_)
SortRows(s) ==
  IF s = <<>> THEN <<>> ELSE InsertRow(SortRows(SubSeq(s, 1, Len(s) - 1)), Last(s))

\* Lines 50-53: the two columns of a two-dimensional array and interp1d,
\* which sorts them by temperature (assume_sorted=False).
Lambda_interp(d) ==
  LET rows == [i \in DOMAIN d.rows |-> <<d.rows[i][1], d.rows[i][2]>>]
  IN The({[T_tab |-> [i \in DOMAIN rows |-> rows[i][1]],
           Lambda_tab |-> [i \in DOMAIN rows |-> rows[i][2]],
           x |-> [i \in DOMAIN sorted |-> sorted[i][1]],
           y |-> [i \in DOMAIN sorted |-> sorted[i][2]]] :
            sorted \in {SortRows(rows)}})

\* interp1d's linear evaluation at t: searchsorted, clipped to 1..n-1, then
\* slope*(t - x_lo) + y_lo on the interval found; outside the table the
\* first or the last interval is extended.
interp_linear(x, y, t) ==
  LET n == Len(x)
      idx == IF IsNaN(t) THEN n ELSE Cardinality({i \in 1..n : FLt(x[i], t)})
      lo == IF idx < 1 THEN 1 ELSE IF idx > n - 1 THEN n - 1 ELSE idx
      hi == lo + 1
      slope == FDiv(FSub(y[hi], y[lo]), FSub(x[hi], x[lo]))
  IN FAdd(FMul(slope, FSub(t, x[lo])), y[lo])

cool_lambda(tb, T) ==
  [v |-> Array([i \in DOMAIN T |-> Call("interp_linear", <<tb.x, tb.y, T[i]>>)]),
   p |-> <<>>]

cooling_time(g, tb, rr) ==
  LET Time(d, pr, L) ==
        Array([i \in DOMAIN rr |->
                 FDiv(FMul(g.gamma, pr.v[i]),
                      FMul(FMul(g.gm1, FPow(FDiv(d.v[i], FMul(g.mu, g.mp)), 2, 1)),
                           L.v[i]))])
      Cool(d, pr, T) ==
        The({[v |-> Time(d, pr, L), p |-> d.p \o pr.p \o T.p \o L.p] :
               L \in {Call("cool_lambda", <<tb, T.v>>)}})
  IN The({Cool(d, pr, T) :
            d \in {Call("rho", <<g, rr>>)},
            pr \in {Call("pressure", <<g, rr>>)},
            T \in {Call("Temperature", <<g, rr>>)}})

----------------------------------------------------------------------------
(* isothermal_sol.py                                                       *)

\* Lines 13-19: the ambient sound speed and the Bondi radius.
IsothermalBondi(c, M_bh, T_amb) ==
  LET cs_amb == FSqrt(FDiv(FMul(c.kB, T_amb), FMul(c.mu, c.mp)))
      v_bh == FMul(Dec(1000, 0), Dec(1, 5))
  IN FDiv(FMul(FMul(Two, c.G), M_bh), FAdd(FPow(cs_amb, 2, 1), FPow(v_bh, 2, 1)))

\* Module-level names; the parameter block's mass, ambient temperature and
\* softening length (R_bondi in the script as it stands) are the inputs.
IsothermalModule(c, M_bh, T_amb, epsilon) ==
  c @@
  [T_amb |-> T_amb,
   cs_amb |-> FSqrt(FDiv(FMul(c.kB, T_amb), FMul(c.mu, c.mp))),
   v_bh |-> FMul(Dec(1000, 0), Dec(1, 5)),
   rho0 |-> FMul(Dec(1, -3), c.mp),
   M_bh |-> M_bh,
   R_bondi |-> IsothermalBondi(c, M_bh, T_amb),
   epsilon |-> epsilon,
   T_vir |-> FDiv(FMul(FMul(c.G, M_bh), c.mp), FMul(FMul(Dec(1, 3), c.pc), c.kB))]

IsothermalPrints == <<16, 20, 26>>

Phi_iso(g, x) ==
  FDiv(FMul(FMul(MinusOne, g.G), g.M_bh),
       FSqrt(FAdd(FPow(x, 2, 1), FPow(g.epsilon, 2, 1))))

Phi_isoArray(g, rr) ==
  [v |-> Array([i \in DOMAIN rr |-> Phi_iso(g, rr[i])]), p |-> <<>>]

density_profile(g, rr) ==
  The({[v |-> Array([i \in DOMAIN rr |->
                       FMul(g.rho0,
                            FExp(FDiv(FAdd(FNegate(Phi_iso(g, rr[i])), Phi0), cs2)))]),
        p |-> <<>>] :
         Phi0 \in {Phi_iso(g, Zero)}, cs2 \in {FPow(g.cs_amb, 2, 1)}})

pressure_profile(g, rr) ==
  The({[v |-> Array([i \in DOMAIN rr |-> FMul(d.v[i], FPow(g.cs_amb, 2, 1))]),
        p |-> d.p] :
         d \in {Call("density_profile", <<g, rr>>)}})

temperature_profile(g, rr) ==
  The({[v |-> Array([i \in DOMAIN rr |->
                       FDiv(FMul(FMul(pr.v[i], g.mu), g.mp), FMul(d.v[i], g.kB))]),
        p |-> pr.p \o d.p] :
         pr \in {Call("pressure_profile", <<g, rr>>)},
         d \in {Call("density_profile", <<g, rr>>)}})

----------------------------------------------------------------------------
(* unit_conversion.py                                                      *)

\* Module-level names; the mass and the three code scales are the inputs.
UnitModule(c, M_bh, L_code, v_code, rho_code) ==
  LET gq == <<5, 3>>
      gamma == FDiv(FromInt(Prec, 5), FromInt(Prec, 3))
      v_bh == FMul(Dec(1000, 0), Dec(1, 5))
      R_bondi == FDiv(FMul(FMul(Two, c.G), M_bh), FPow(v_bh, 2, 1))
      r_vir == c.kpc
      T_vir == FDiv(FMul(FMul(c.G, M_bh), c.mp), FMul(r_vir, c.kB))
      rho_cgm == FMul(Dec(1, -3), c.mp)
      T_cgm == Dec(1, 6)
      rho_vir == FDiv(FMul(rho_cgm, T_cgm), T_vir)
      K == FMul(FDiv(FMul(c.kB, T_vir), FMul(c.mu, c.mp)),
                QPow(rho_vir, QOneMinus(gq)))
      t_code == FDiv(L_code, v_code)
      P_code == FMul(rho_code, FPow(v_code, 2, 1))
      K_code == FMul(K, FDiv(QPow(rho_code, gq), P_code))
  IN c @@
     [gq |-> gq, gamma |-> gamma, gm1 |-> FSub(gamma, One), v_bh |-> v_bh,
      M_bh |-> M_bh, R_bondi |-> R_bondi,
      epsilon |-> FMul(Dec(1, -1), R_bondi), r_vir |-> r_vir, T_vir |-> T_vir,
      rho_cgm |-> rho_cgm, T_cgm |-> T_cgm,
      cs_cgm |-> FSqrt(FDiv(FMul(c.kB, T_cgm), FMul(c.mu, c.mp))),
      rho_vir |-> rho_vir, K |-> K,
      L_code |-> L_code, v_code |-> v_code, rho_code |-> rho_code,
      M_code |-> FMul(rho_code, FPow(L_code, 3, 1)),
      t_code |-> t_code, P_code |-> P_code,
      T_code |-> FMul(FDiv(FMul(c.mu, c.mp), c.kB), FPow(v_code, 2, 1)),
      G_code |-> FMul(c.G, FMul(rho_code, FPow(t_code, 2, 1))),
      K_code |-> K_code,
      P_cgm |-> FDiv(FMul(FMul(rho_cgm, c.kB), T_cgm), FMul(c.mu, c.mp)),
      P_vir |-> FMul(FMul(K_code, QPow(FDiv(rho_vir, rho_code), gq)), P_code)]

UnitPrints == <<49, 50, 51, 52, 53, 54, 55, 56, 63, 64, 65>>

\* Lines 69-78: a quantity in code units is the quantity over its scale.
ToCodeTimes(x, scale) == FMul(x, scale)
ToCode(x, scale) == FDiv(x, scale)

\* Lines 69-78: the quantities printed in code units, each with its scale.
UnitConversions(g) ==
  << [q |-> g.r_vir, s |-> g.L_code], [q |-> g.rho_vir, s |-> g.rho_code],
     [q |-> g.T_vir, s |-> g.T_code], [q |-> g.M_bh, s |-> g.M_code],
     [q |-> g.v_bh, s |-> g.v_code], [q |-> g.R_bondi, s |-> g.L_code],
     [q |-> g.epsilon, s |-> g.L_code], [q |-> g.rho_cgm, s |-> g.rho_code],
     [q |-> g.T_cgm, s |-> g.T_code], [q |-> g.cs_cgm, s |-> g.v_code] >>

----------------------------------------------------------------------------
(* The functions that are called by name.                                 *)

Call(f, a0) == The({
  CASE f = "Round" -> RoundP(a[1], a[2], a[3], a[4], a[5])
    [] f = "ToPrec" -> ToPrecP(a[1], a[2])
    [] f = "FLt" -> FLtP(a[1], a[2])
    [] f = "FAddP" -> FAddP(a[1], a[2], a[3])
    [] f = "FMulP" -> FMulP(a[1], a[2], a[3])
    [] f = "FDivP" -> FDivP(a[1], a[2], a[3])
    [] f = "FSqrtP" -> FSqrtP(a[1], a[2])
    [] f = "FPowP" -> FPowP(a[1], a[2], a[3], a[4])
    [] f = "FExpP" -> FExpP(a[1], a[2])
    [] f = "Taylor" -> Taylor(a[1], a[2], a[3], a[4])
    [] f = "Dec" -> DecP(a[1], a[2])
    [] f = "linspace" -> linspace(a[1], a[2], a[3])
    [] f = "interp_linear" -> interp_linear(a[1], a[2], a[3])
    [] f = "PolytropicModule" -> PolytropicModule(a[1], a[2], a[3], a[4])
    [] f = "IsothermalBondi" -> IsothermalBondi(a[1], a[2], a[3])
    [] f = "IsothermalModule" -> IsothermalModule(a[1], a[2], a[3], a[4])
    [] f = "UnitModule" -> UnitModule(a[1], a[2], a[3], a[4], a[5])
    [] f = "Phi" -> PhiArray(a[1], a[2])
    [] f = "rho" -> rho(a[1], a[2])
    [] f = "pressure" -> pressure(a[1], a[2])
    [] f = "Temperature" -> Temperature(a[1], a[2])
    [] f = "entropy" -> entropy(a[1], a[2])
    [] f = "cool_lambda" -> cool_lambda(a[1], a[2])
    [] f = "cooling_time" -> cooling_time(a[1], a[2], a[3])
    [] f = "free_fall_time" -> free_fall_time(a[1], a[2])
    [] f = "isothermal.Phi" -> Phi_isoArray(a[1], a[2])
    [] f = "density_profile" -> density_profile(a[1], a[2])
    [] f = "pressure_profile" -> pressure_profile(a[1], a[2])
    [] f = "temperature_profile" -> temperature_profile(a[1], a[2])
  : a \in {a0}})

----------------------------------------------------------------------------
(* Inputs: the values the parameter blocks and cooltable.dat are given.    *)

\* M_bh = 2e7*Msun in the scripts.
MassChoices == {FMul(Dec(2, 7), Msun), FMul(Dec(5, 7), Msun)}
\* epsilon = 10*pc in polytropic_sol.py.
PolytropicEpsilons == {FMul(FromInt(Prec, 10), pc), Zero}
\* gamma = 5.0/3.0 in polytropic_sol.py.
GammaChoices == {<<5, 3>>, <<3, 2>>, <<4, 3>>, <<1, 3>>}
\* T_amb = 1e7 in isothermal_sol.py.
AmbientChoices == {Dec(1, 7), Dec(1, 6)}

PolytropicModules ==
  {Call("PolytropicModule", <<Constants, M, e, q>>) :
     M \in MassChoices, e \in PolytropicEpsilons, q \in GammaChoices}
\* epsilon = R_bondi in isothermal_sol.py.
IsothermalModules ==
  {Call("IsothermalModule", <<Constants, x[1], x[2], x[3]>>) :
     x \in UNION {{<<M, T, Call("IsothermalBondi", <<Constants, M, T>>)>>, <<M, T, Zero>>} :
                    M \in MassChoices, T \in AmbientChoices}}
\* The code scales: those of lines 38-40 and others.
LengthScales == {FMul(Dec(10, -1), kpc), FMul(Dec(1, -1), kpc)}
VelocityScales == {Dec(1, 6), Dec(1, 5), Dec(3, 7)}
DensityScales == {FMul(Dec(10, -1), mp), FMul(Dec(1, -3), mp)}

UnitModules ==
  {Call("UnitModule", <<Constants, M, L, v, d>>) :
     M \in MassChoices, L \in LengthScales, v \in VelocityScales,
     d \in DensityScales}

RowA == <<Num(Dec(1, 4)), Num(Dec(1, -23))>>
RowB == <<Num(Dec(1, 5)), Num(Dec(3, -22))>>
RowC == <<Num(Dec(1, 6)), Num(Dec(1, -22))>>
\* A second row at the temperature of RowB.
RowD == <<Num(Dec(1, 5)), Num(Dec(5, -23))>>
Rows == {RowA, RowB, RowC, RowD}

Missing == [exists |-> FALSE, lines |-> <<>>]
OnDisk(ls) == [exists |-> TRUE, lines |-> ls]
SortedFile == OnDisk(<<RowA, RowB, RowC>>)
ThreeColumnFile ==
  OnDisk(<<RowA \o <<Num(One)>>, RowB \o <<Num(One)>>, RowC \o <<Num(One)>>>>)
\* The files the script may find beside it.
FileChoices ==
  {Missing,
   OnDisk(<<>>),
   OnDisk(<<RowA>>),
   OnDisk(<<<<Num(Dec(1, 4))>>, <<Num(Dec(1, 5))>>>>),
   OnDisk(<<RowA, <<Num(Dec(1, 5)), Text>>, RowC>>),
   OnDisk(<<RowA, RowB \o <<Num(One)>>, RowC>>),
   ThreeColumnFile,
   SortedFile,
   OnDisk(<<RowC, <<>>, RowA, RowB>>),
   OnDisk(<<RowB, RowC>>)}

\* Tables of two or three different rows, in every order, and the table
\* with a third column.
TableFiles ==
  {OnDisk(<<t[1], t[2]>>) : t \in {u \in Rows \X Rows : u[1] # u[2]}} \cup
  {OnDisk(<<t[1], t[2], t[3]>>) :
     t \in {u \in Rows \X Rows \X Rows : u[1] # u[2] /\ u[1] # u[3] /\ u[2] # u[3]}}
  \cup {ThreeColumnFile}

\* Radii handed to the profile functions: 0, 1 cm, 0.01 pc, 10 pc, 1 kpc
\* (r_vir), 2 kpc.
RadiusChoices ==
  {Zero, One, FMul(Dec(1, -2), pc), FMul(FromInt(Prec, 10), pc),
   FMul(Dec(1, 3), pc), FMul(Dec(2, 3), pc)}
RECURSIVE Arrays(_)
Arrays(n) ==
  IF n = 0 THEN {<<>>}
  ELSE {a \o <<x>> : a \in Arrays(n - 1), x \in RadiusChoices}
\* The increasing radius arrays of length ArrLen.
RadiusArrays ==
  {a \in Arrays(ArrLen) : \A i \in 1..(ArrLen - 1) : FLt(a[i], a[i + 1])}
\* Temperatures handed to cool_lambda beside the tabulated ones: below the
\* table, between its rows and above it.
Probes == <<Dec(1, 3), Dec(3, 4), Dec(5, 5), Dec(1, 8)>>

NoData == [ok |-> FALSE, ndim |-> 0, rows |-> <<>>]
NoTable == [T_tab |-> <<>>, Lambda_tab |-> <<>>, x |-> <<>>, y |-> <<>>]
NoCall == [fn |-> "none", v |-> <<>>, p |-> <<>>]

----------------------------------------------------------------------------
(* The scripts, statement by statement.                                    *)

\* No combine_plots.py runs.
NoMedia == disk = <<>> /\ env = <<>> /\ made = <<>> /\ run = <<>>

Init ==
  /\ script \in {"isothermal", "polytropic", "unit_conversion"}
  /\ globals \in CASE script = "isothermal" -> IsothermalModules
                   [] script = "polytropic" -> PolytropicModules
                   [] OTHER -> UnitModules
  /\ at = CASE script = "isothermal" -> "grid"
            [] script = "polytropic" -> "open"
            [] OTHER -> "parameters"
  /\ log = CASE script = "isothermal" -> IsothermalPrints
             [] script = "polytropic" -> PolytropicPrints
             [] OTHER -> UnitPrints
  /\ file \in IF script = "polytropic" THEN FileChoices ELSE {Missing}
  /\ fileOpen = FALSE
  /\ loads = 0
  /\ data = NoData
  /\ tab = NoTable
  /\ radii = <<>>
  /\ tq = <<>>
  /\ out = NoCall
  /\ saved = FALSE
  /\ NoMedia

\* A statement that evaluates the function fn on the arguments a for a plot.
Plot(from, to, fn, a) ==
  /\ at = from
  /\ at' = to
  /\ \E res \in {Call(fn, a)} :
       /\ out' = [fn |-> fn, v |-> res.v, p |-> res.p]
       /\ log' = log \o res.p
  /\ UNCHANGED <<media, script, globals, file, fileOpen, loads, data, tab, radii, tq, saved>>

\* Line 49, np.loadtxt opens cooltable.dat: a missing file ends the script.
OpenTable ==
  /\ script = "polytropic"
  /\ at = "open"
  /\ fileOpen' = file.exists
  /\ at' = IF file.exists THEN "read" ELSE "aborted"
  /\ UNCHANGED <<media, script, globals, file, loads, data, tab, radii, tq, out, log, saved>>

\* Line 49, np.loadtxt reads the file and closes it: a file it cannot
\* convert ends the script.
ReadTable ==
  /\ script = "polytropic"
  /\ at = "read"
  /\ data' = loadtxt(file)
  /\ fileOpen' = FALSE
  /\ loads' = loads + 1
  /\ at' = IF loadtxt(file).ok THEN "interp" ELSE "aborted"
  /\ UNCHANGED <<media, script, globals, file, tab, radii, tq, out, log, saved>>

\* Lines 50-53: data[:, 0] of a one-dimensional array ends the script.
BuildInterp ==
  /\ script = "polytropic"
  /\ at = "interp"
  /\ tab' = IF data.ndim = 2 THEN Lambda_interp(data) ELSE tab
  /\ at' = IF data.ndim = 2 THEN "grid" ELSE "aborted"
  /\ UNCHANGED <<media, script, globals, file, fileOpen, loads, data, radii, tq, out, log, saved>>

\* Line 101: r = np.linspace(1e-2*pc, 1e3*pc, 10000)
PolyGrid ==
  /\ script = "polytropic"
  /\ at = "grid"
  /\ radii' = Call("linspace", <<FMul(Dec(1, -2), globals.pc),
                                 FMul(Dec(1, 3), globals.pc), GridN>>)
  /\ at' = "print_rho"
  /\ UNCHANGED <<media, script, globals, file, fileOpen, loads, data, tab, tq, out, log, saved>>

\* Line 102: print(rho(r))
PrintRho ==
  /\ script = "polytropic"
  /\ at = "print_rho"
  /\ at' = "density"
  /\ \E res \in {Call("rho", <<globals, radii>>)} :
       /\ out' = [fn |-> "rho", v |-> res.v, p |-> res.p \o <<102>>]
       /\ log' = log \o res.p \o <<102>>
  /\ UNCHANGED <<media, script, globals, file, fileOpen, loads, data, tab, radii, tq, saved>>

PlotDensity ==
  script = "polytropic" /\ Plot("density", "pressure", "rho", <<globals, radii>>)
PlotPressure ==
  script = "polytropic" /\ Plot("pressure", "potential", "pressure", <<globals, radii>>)
PlotPotential ==
  script = "polytropic" /\ Plot("potential", "temperature", "Phi", <<globals, radii>>)
PlotTemperature ==
  script = "polytropic" /\ Plot("temperature", "cooling", "Temperature", <<globals, radii>>)
PlotCooling ==
  script = "polytropic" /\ Plot("cooling", "freefall", "cooling_time", <<globals, tab, radii>>)
PlotFreeFall ==
  script = "polytropic" /\ Plot("freefall", "entropy", "free_fall_time", <<globals, radii>>)
PlotEntropy ==
  script = "polytropic" /\ Plot("entropy", "save", "entropy", <<globals, radii>>)

\* Lines 179-182: fig.savefig and the print that follows it.
PolySave ==
  /\ script = "polytropic"
  /\ at = "save"
  /\ saved' = TRUE
  /\ log' = log \o <<181>>
  /\ at' = "done"
  /\ UNCHANGED <<media, script, globals, file, fileOpen, loads, data, tab, radii, tq, out>>

\* isothermal_sol.py line 39: r = np.linspace(0.01*pc, 1e3*pc, 10000)
IsoGrid ==
  /\ script = "isothermal"
  /\ at = "grid"
  /\ radii' = Call("linspace", <<FMul(Dec(1, -2), globals.pc),
                                 FMul(Dec(1, 3), globals.pc), GridN>>)
  /\ at' = "density"
  /\ UNCHANGED <<media, script, globals, file, fileOpen, loads, data, tab, tq, out, log, saved>>

IsoPlotDensity ==
  script = "isothermal" /\ Plot("density", "pressure", "density_profile", <<globals, radii>>)
IsoPlotPressure ==
  script = "isothermal" /\ Plot("pressure", "temperature", "pressure_profile", <<globals, radii>>)
IsoPlotTemperature ==
  script = "isothermal"
  /\ Plot("temperature", "potential", "temperature_profile", <<globals, radii>>)
IsoPlotPotential ==
  script = "isothermal" /\ Plot("potential", "save", "isothermal.Phi", <<globals, radii>>)

\* Lines 91-96: fig.savefig and the print that follows it.
IsoSave ==
  /\ script = "isothermal"
  /\ at = "save"
  /\ saved' = TRUE
  /\ log' = log \o <<95>>
  /\ at' = "done"
  /\ UNCHANGED <<media, script, globals, file, fileOpen, loads, data, tab, radii, tq, out>>

\* unit_conversion.py lines 67-79: the parameters in code units.
UnitParameters ==
  /\ script = "unit_conversion"
  /\ at = "parameters"
  /\ \E cs \in {UnitConversions(globals)} :
       out' = [fn |-> "parameters",
               v |-> [i \in DOMAIN cs |-> ToCode(cs[i].q, cs[i].s)],
               p |-> <<68, 69, 70, 71, 72, 73, 74, 75, 76, 77, 78, 79>>]
  /\ log' = log \o <<68, 69, 70, 71, 72, 73, 74, 75, 76, 77, 78, 79>>
  /\ at' = "pressures"
  /\ UNCHANGED <<media, script, globals, file, fileOpen, loads, data, tab, radii, tq, saved>>

\* unit_conversion.py lines 81-84: the two pressures.
UnitPressures ==
  /\ script = "unit_conversion"
  /\ at = "pressures"
  /\ out' = [fn |-> "P_vir", v |-> <<globals.P_cgm, globals.P_vir>>, p |-> <<83, 84>>]
  /\ log' = log \o <<83, 84>>
  /\ at' = "done"
  /\ UNCHANGED <<media, script, globals, file, fileOpen, loads, data, tab, radii, tq, saved>>

Next ==
  \/ OpenTable \/ ReadTable \/ BuildInterp \/ PolyGrid \/ PrintRho
  \/ PlotDensity \/ PlotPressure \/ PlotPotential \/ PlotTemperature
  \/ PlotCooling \/ PlotFreeFall \/ PlotEntropy \/ PolySave
  \/ IsoGrid \/ IsoPlotDensity \/ IsoPlotPressure \/ IsoPlotTemperature
  \/ IsoPlotPotential \/ IsoSave
  \/ UnitParameters \/ UnitPressures

Spec == Init /\ [][Next]_vars


----------------------------------------------------------------------------
(* The functions of the scripts on their own: a module has been imported   *)
(* (its module-level statements have run, the cooling table is loaded) and *)
(* one of its functions is called on an array.  What a function returns    *)
(* depends on its argument and the module-level names only, so one call    *)
(* per behaviour shows all it can return.                                  *)

\* The module as the script sets it: M_bh = 2e7*Msun, epsilon = 10*pc,
\* gamma = 5.0/3.0.
ShippedPolytropic ==
  Call("PolytropicModule",
       <<Constants, FMul(Dec(2, 7), Msun), FMul(FromInt(Prec, 10), pc), <<5, 3>>>>)

InitAPI ==
  /\ at = "api"
  /\ log = <<>>
  /\ out = NoCall
  /\ fileOpen = FALSE
  /\ saved = FALSE
  /\ NoMedia
  /\ \/ /\ script = "isothermal"
        /\ globals \in IsothermalModules
        /\ file = Missing
        /\ loads = 0
        /\ radii \in RadiusArrays
        /\ tq = <<>>
     \/ /\ script = "polytropic"
        /\ globals \in PolytropicModules
        /\ file = SortedFile
        /\ loads = 1
        /\ radii \in RadiusArrays
        /\ tq = <<>>
     \/ /\ script = "polytropic"
        /\ globals = ShippedPolytropic
        /\ file \in TableFiles
        /\ loads = 1
        /\ radii = <<>>
        /\ tq \in {Lambda_interp(loadtxt(file)).T_tab, Probes}
  /\ data = IF script = "polytropic" THEN loadtxt(file) ELSE NoData
  /\ tab = IF script = "polytropic" THEN Lambda_interp(loadtxt(file)) ELSE NoTable

\* A call of the function fn of script s on the arguments a.
Apply(fn, a) ==
  /\ at = "api"
  /\ out = NoCall
  /\ \E res \in {Call(fn, a)} :
       /\ out' = [fn |-> fn, v |-> res.v, p |-> res.p]
       /\ log' = log \o res.p
  /\ UNCHANGED <<media, script, at, globals, file, fileOpen, loads, data, tab, radii, tq, saved>>

CallPhi == script = "polytropic" /\ radii # <<>> /\ Apply("Phi", <<globals, radii>>)
CallRho == script = "polytropic" /\ radii # <<>> /\ Apply("rho", <<globals, radii>>)
CallPressure == script = "polytropic" /\ radii # <<>> /\ Apply("pressure", <<globals, radii>>)
CallTemperature ==
  script = "polytropic" /\ radii # <<>> /\ Apply("Temperature", <<globals, radii>>)
CallEntropy == script = "polytropic" /\ radii # <<>> /\ Apply("entropy", <<globals, radii>>)
CallCoolLambda == script = "polytropic" /\ tq # <<>> /\ Apply("cool_lambda", <<tab, tq>>)
CallCoolingTime ==
  script = "polytropic" /\ radii # <<>> /\ Apply("cooling_time", <<globals, tab, radii>>)
CallFreeFallTime ==
  script = "polytropic" /\ radii # <<>> /\ Apply("free_fall_time", <<globals, radii>>)
CallPhiIso == script = "isothermal" /\ Apply("isothermal.Phi", <<globals, radii>>)
CallDensityProfile == script = "isothermal" /\ Apply("density_profile", <<globals, radii>>)
CallPressureProfile == script = "isothermal" /\ Apply("pressure_profile", <<globals, radii>>)
CallTemperatureProfile ==
  script = "isothermal" /\ Apply("temperature_profile", <<globals, radii>>)

NextAPI ==
  \/ CallPhi \/ CallRho \/ CallPressure \/ CallTemperature \/ CallEntropy
  \/ CallCoolLambda \/ CallCoolingTime \/ CallFreeFallTime
  \/ CallPhiIso \/ CallDensityProfile \/ CallPressureProfile
  \/ CallTemperatureProfile

SpecAPI == InitAPI /\ [][NextAPI]_vars
----------------------------------------------------------------------------
(* combine_plots.py, in output_folder/spherical_profile_3d and in          *)
(* output_folder/comparision_profile: composite images of the panels of    *)
(* each time step, a video of the composites, and (comparision_profile) a  *)
(* PDF of them.                                                            *)

Spherical == "spherical_profile_3d"
Comparison == "comparision_profile"
CombineScripts == {Spherical, Comparison}

\* Line 31 of each script.
FOLDERS(s) ==
  IF s = Spherical THEN <<"dens", "pres", "temp", "velr">>
  ELSE <<"dens", "pres", "mass_flux", "temp", "velr", "time_scales">>
\* Line 35 (11 in the scripts).
NUM_FILES == 2
\* Line 37, and the codec create_video_from_subplots of comparision_profile
\* tries first (line 172).
CODEC == "mp4v"
H264 == "H264"

\* Lines 31-39: the configuration of a script.
CombineModule(s) ==
  [FOLDERS |-> FOLDERS(s), NUM_FILES |-> NUM_FILES, CODEC |-> CODEC,
   OUTPUT_FOLDER |-> "data", OUTPUT_VIDEO |-> "data_video.mp4"]

\* f"t_{t}.png": a file of the data folder is named by the decimal digits
\* of its time index.
RECURSIVE FileName(_)
FileName(t) == IF t < 10 THEN <<t>> ELSE FileName(t \div 10) \o <<t % 10>>

\* The digits of a name read as text: the order of sorted() without a key.
TextKey(name) == 11 * name[1] + (IF Len(name) > 1 THEN name[2] + 1 ELSE 0)

\* key=lambda x: int(x.stem.split('_')[1]): the time index of a name.
RECURSIVE SortKey(_)
SortKey(name) ==
  IF Len(name) = 1 THEN name[1]
  ELSE 10 * SortKey(SubSeq(name, 1, Len(name) - 1)) + name[Len(name)]

\* sorted(data_path.glob("t_*.png"), key=...): the names glob yields, in
\* ascending order of their keys.
RECURSIVE sorted(_)
sorted(names) ==
  IF names = {} THEN <<>>
  ELSE LET first == CHOOSE x \in names : \A y \in names : SortKey(x) <= SortKey(y)
       IN <<first>> \o sorted(names \ {first})

\* The panels of a script: one image of each folder for each time step.
Panels(s) == {<<FOLDERS(s)[i], t>> : i \in DOMAIN FOLDERS(s), t \in 0..(NUM_FILES - 1)}
FolderSet(s) == {FOLDERS(s)[i] : i \in DOMAIN FOLDERS(s)}

\* The data folder: absent, or a directory of files t_<n>.png, each one
\* readable ("ok") or not ("bad").
NoFolder == [exists |-> FALSE, files |-> <<>>]
Folder(fs) == [exists |-> TRUE, files |-> fs]
NoVideo == [exists |-> FALSE, codec |-> "none", frames |-> <<>>, released |-> FALSE]

----------------------------------------------------------------------------
(* The inputs of a run.                                                    *)

\* At most this many input images are missing or unreadable.
MaxFaults == 2

RECURSIVE SubsetsUpTo(_, _)
SubsetsUpTo(S, k) ==
  IF k = 0 THEN {{}}
  ELSE LET R == SubsetsUpTo(S, k - 1)
       IN R \cup {F \cup {p} : F \in R, p \in S}

\* The input images of a script whose folders all exist: an image is there
\* and readable ("ok"), absent ("missing"), or a file that is no image
\* ("bad": PIL's Image.open raises on it).
ImageChoices(s) ==
  UNION {{[p \in Panels(s) |-> IF p \in F THEN kind[p] ELSE "ok"] :
            kind \in [F -> {"missing", "bad"}]} :
         F \in SubsetsUpTo(Panels(s), MaxFaults)}

\* The folders that exist: all of them, or all but some.
FolderChoices(s) == SUBSET FolderSet(s)

\* The data folder before a run of the script: absent, or left by an
\* earlier run with a composite that is no longer readable.
StaleFolders == {NoFolder, Folder((<<9>> :> "bad"))}

\* The names of the data folder create_video_from_subplots is called on.
VideoNames == {<<0>>, <<2>>, <<1, 0>>, <<1, 1>>}
\* The data folders create_video_from_subplots is called on.
VideoFolders ==
  {NoFolder} \cup
  UNION {{Folder(fs) : fs \in [N -> {"ok", "bad"}]} : N \in SUBSET VideoNames}

\* The codecs cv2.VideoWriter can open.
CodecChoices == {{H264, CODEC}, {CODEC}, {}}
\* img2pdf is installed or not.
Img2pdfChoices == {"ok", "absent"}

\* Every input image is there and readable: the runs in which the codecs
\* and img2pdf are varied.
AllImagesOk(d) == \A p \in DOMAIN d.images : d.images[p] = "ok"

NoRun ==
  [t |-> 0, png_files |-> <<>>, idx |-> 0, success_subplots |-> "unset",
   success_video |-> "unset", success_pdf |-> "unset", banner |-> "none",
   status |-> "running"]

InitCombine ==
  /\ script \in CombineScripts
  /\ globals = CombineModule(script)
  /\ file = [exists |-> FALSE, lines |-> <<>>]
  /\ fileOpen = FALSE
  /\ loads = 0
  /\ data = NoData
  /\ tab = NoTable
  /\ radii = <<>>
  /\ tq = <<>>
  /\ out = NoCall
  /\ log = <<>>
  /\ saved = FALSE
  /\ made = <<>>
  /\ run = NoRun
  /\ \/ \* The script is run: python combine_plots.py
        /\ at = "verify"
        /\ \E fs \in FolderChoices(script), st \in StaleFolders :
             /\ \E im \in IF fs = FolderSet(script) THEN ImageChoices(script)
                          ELSE {[p \in Panels(script) |->
                                   IF p[1] \in fs THEN "ok" ELSE "missing"]} :
                  disk = [folders |-> fs, images |-> im, data |-> st,
                          video |-> NoVideo, pdf |-> FALSE]
        /\ \E cs \in IF AllImagesOk(disk) THEN CodecChoices ELSE {{H264, CODEC}},
              ip \in IF script # Comparison THEN {"absent"}
                     ELSE IF AllImagesOk(disk) THEN Img2pdfChoices ELSE {"ok"} :
             env = [entry |-> "__main__", codecs |-> cs, img2pdf |-> ip]
     \/ \* create_video_from_subplots is called on a data folder.
        /\ at = "video"
        /\ \E df \in VideoFolders :
             disk = [folders |-> FolderSet(script),
                     images |-> [p \in Panels(script) |-> "ok"], data |-> df,
                     video |-> NoVideo, pdf |-> FALSE]
        /\ \E cs \in CodecChoices :
             env = [entry |-> "create_video_from_subplots", codecs |-> cs,
                    img2pdf |-> "absent"]

\* What the profile scripts keep, which combine_plots.py does not touch.
profiles == <<globals, file, fileOpen, loads, data, tab, radii, tq, out, saved>>

\* The line of a print, in comparision_profile and in spherical_profile_3d.
Line(c, s) == IF script = Comparison THEN <<c>> ELSE <<s>>

----------------------------------------------------------------------------
(* The steps of a run.                                                     *)

\* The verification with the flag set by the last folder alone.
VerifyLastFolder ==
  /\ script \in CombineScripts
  /\ at = "verify"
  /\ IF FOLDERS(script)[Len(FOLDERS(script))] \in disk.folders
     THEN /\ at' = "subplots"
          /\ run' = run
     ELSE /\ at' = "exited"
          /\ run' = [run EXCEPT !.status = "1"]
  /\ UNCHANGED <<script, disk, env, made, profiles, log>>

\* __main__, "Verify all source folders exist": comparision_profile lines
\* 275-289, spherical_profile_3d lines 191-205.
VerifyFolders ==
  /\ script \in CombineScripts
  /\ at = "verify"
  /\ IF FolderSet(script) \subseteq disk.folders
     THEN /\ at' = "subplots"
          /\ log' = log \o Line(276, 192)
          /\ run' = run
     ELSE /\ at' = "exited"
          /\ log' = log \o Line(276, 192) \o Line(286, 202)
          /\ run' = [run EXCEPT !.status = "1"]
  /\ UNCHANGED <<script, disk, env, made, profiles>>

\* create_subplots up to its loop: comparision_profile lines 55-79 (the
\* output folder, then the sample image of the first folder, which is opened
\* outside any try), spherical_profile_3d lines 48-50.
CreateSubplotsEnter ==
  /\ script \in CombineScripts
  /\ at = "subplots"
  /\ disk' = [disk EXCEPT !.data.exists = TRUE]
  /\ made' = IF disk.data.exists THEN made ELSE Append(made, [dir |-> "data"])
  /\ \E sample \in {IF script = Comparison
                    THEN disk.images[<<FOLDERS(script)[1], 0>>] ELSE "ok"} :
       CASE sample = "ok" ->
              /\ at' = "compose"
              /\ run' = [run EXCEPT !.t = 0]
              /\ log' = log \o Line(57, 50)
         [] sample = "missing" ->
              /\ at' = "after_subplots"
              /\ run' = [run EXCEPT !.success_subplots = "False"]
              /\ log' = log \o <<57, 62>>
         [] OTHER ->
              /\ at' = "crashed"
              /\ run' = [run EXCEPT !.status = "exception"]
              /\ log' = log \o <<57>>
  /\ UNCHANGED <<script, env, profiles>>

\* What a panel of the composite shows.
Panel(status) ==
  CASE status = "ok" -> "image"
    [] status = "missing" -> "File not found"
    [] OTHER -> "Error loading"

\* One time step of create_subplots: comparision_profile lines 82-133,
\* spherical_profile_3d lines 53-103.
CreateSubplotsStep ==
  /\ script \in CombineScripts
  /\ at = "compose"
  /\ run.t < globals.NUM_FILES
  /\ \E name \in {FileName(run.t)} :
       /\ disk' = [disk EXCEPT !.data.files = (name :> "ok") @@ @]
       /\ made' = Append(made,
                    [png |-> name,
                     panels |-> [i \in DOMAIN globals.FOLDERS |->
                                   Panel(disk.images[<<globals.FOLDERS[i], run.t>>])]])
  /\ run' = [run EXCEPT !.t = @ + 1]
  /\ log' = log \o Line(130, 100)
  /\ UNCHANGED <<script, at, env, profiles>>

\* The end of create_subplots: comparision_profile lines 135-136,
\* spherical_profile_3d lines 105-107.
CreateSubplotsReturn ==
  /\ script \in CombineScripts
  /\ at = "compose"
  /\ run.t >= globals.NUM_FILES
  /\ at' = "after_subplots"
  /\ run' = [run EXCEPT !.success_subplots = "True"]
  /\ log' = log \o Line(135, 105)
  /\ UNCHANGED <<script, disk, env, made, profiles>>

\* __main__ after step 1: comparision_profile lines 292-296,
\* spherical_profile_3d lines 208-212.
MainAfterSubplots ==
  /\ script \in CombineScripts
  /\ at = "after_subplots"
  /\ IF run.success_subplots = "True"
     THEN /\ at' = "video"
          /\ UNCHANGED <<run, log>>
     ELSE /\ at' = "exited"
          /\ run' = [run EXCEPT !.status = "1"]
          /\ log' = log \o Line(295, 211)
  /\ UNCHANGED <<script, disk, env, made, profiles>>

\* Where create_video_from_subplots returns to.
AfterVideo ==
  IF env.entry # "__main__" THEN "returned"
  ELSE IF script = Comparison THEN "pdf" ELSE "banner"

\* create_video_from_subplots up to its loop: comparision_profile lines
\* 146-189 (H264, then CODEC), spherical_profile_3d lines 117-154 (CODEC).
CreateVideoEnter ==
  /\ script \in CombineScripts
  /\ at = "video"
  /\ \E png_files \in {sorted(DOMAIN disk.data.files)},
        codec \in {IF script = Comparison /\ H264 \in env.codecs THEN H264
                   ELSE IF CODEC \in env.codecs THEN CODEC ELSE "none"} :
       CASE ~disk.data.exists ->
              /\ at' = AfterVideo
              /\ run' = [run EXCEPT !.success_video = "False"]
              /\ log' = log \o Line(149, 121)
              /\ UNCHANGED <<disk, made>>
         [] disk.data.exists /\ png_files = <<>> ->
              /\ at' = AfterVideo
              /\ run' = [run EXCEPT !.success_video = "False"]
              /\ log' = log \o Line(156, 128)
              /\ UNCHANGED <<disk, made>>
         [] disk.data.exists /\ png_files # <<>>
              /\ disk.data.files[png_files[1]] # "ok" ->
              /\ at' = AfterVideo
              /\ run' = [run EXCEPT !.success_video = "False",
                                    !.png_files = png_files]
              /\ log' = log \o Line(159, 131) \o Line(165, 137)
              /\ UNCHANGED <<disk, made>>
         [] disk.data.exists /\ png_files # <<>>
              /\ disk.data.files[png_files[1]] = "ok" /\ codec = "none" ->
              /\ at' = AfterVideo
              /\ run' = [run EXCEPT !.success_video = "False",
                                    !.png_files = png_files]
              /\ log' = log \o Line(159, 131) \o Line(183, 148)
              /\ UNCHANGED <<disk, made>>
         [] OTHER ->
              /\ at' = "frames"
              /\ run' = [run EXCEPT !.png_files = png_files, !.idx = 1]
              /\ disk' = [disk EXCEPT !.video =
                            [exists |-> TRUE, codec |-> codec, frames |-> <<>>,
                             released |-> FALSE]]
              /\ made' = Append(made, [video |-> codec])
              /\ log' = log \o Line(159, 131) \o Line(187, 152)
  /\ UNCHANGED <<script, env, profiles>>

\* One turn of the loop that writes the frames: comparision_profile lines
\* 192-200, spherical_profile_3d lines 157-168.
CreateVideoFrame ==
  /\ script \in CombineScripts
  /\ at = "frames"
  /\ run.idx <= Len(run.png_files)
  /\ \E image_path \in {run.png_files[run.idx]} :
       IF disk.data.files[image_path] = "ok"
       THEN /\ disk' = [disk EXCEPT !.video.frames = Append(@, image_path)]
            /\ log' = log \o Line(200, 165)
       ELSE /\ disk' = disk
            /\ log' = log \o Line(195, 161)
  /\ run' = [run EXCEPT !.idx = @ + 1]
  /\ UNCHANGED <<script, at, env, made, profiles>>

\* The end of create_video_from_subplots: comparision_profile lines
\* 202-206, spherical_profile_3d lines 171-178.
CreateVideoReturn ==
  /\ script \in CombineScripts
  /\ at = "frames"
  /\ run.idx > Len(run.png_files)
  /\ disk' = [disk EXCEPT !.video.released = TRUE]
  /\ run' = [run EXCEPT !.success_video = "True"]
  /\ at' = AfterVideo
  /\ log' = log \o Line(205, 173)
  /\ UNCHANGED <<script, env, made, profiles>>

\* convert_images_to_pdf, comparision_profile lines 207-264 (called at line
\* 302): img2pdf.convert raises on a file that is no image.
convert_images_to_pdf ==
  /\ script = Comparison
  /\ at = "pdf"
  /\ at' = "banner"
  /\ \E names \in {DOMAIN disk.data.files} :
       CASE ~disk.data.exists ->
              /\ run' = [run EXCEPT !.success_pdf = "False"]
              /\ log' = log \o <<219>>
              /\ UNCHANGED <<disk, made>>
         [] disk.data.exists /\ names = {} ->
              /\ run' = [run EXCEPT !.success_pdf = "False"]
              /\ log' = log \o <<231>>
              /\ UNCHANGED <<disk, made>>
         [] disk.data.exists /\ names # {} /\ env.img2pdf = "absent" ->
              /\ run' = [run EXCEPT !.success_pdf = "False"]
              /\ log' = log \o <<234, 242>>
              /\ UNCHANGED <<disk, made>>
         [] disk.data.exists /\ names # {} /\ env.img2pdf # "absent"
              /\ (\E n \in names : disk.data.files[n] # "ok") ->
              /\ run' = [run EXCEPT !.success_pdf = "False"]
              /\ log' = log \o <<234, 263>>
              /\ UNCHANGED <<disk, made>>
         [] OTHER ->
              /\ run' = [run EXCEPT !.success_pdf = "True"]
              /\ disk' = [disk EXCEPT !.pdf = TRUE]
              /\ made' = Append(made, [pdf |-> "data.pdf"])
              /\ log' = log \o <<234, 257>>
  /\ UNCHANGED <<script, env, profiles>>

\* The condition of the final banner: comparision_profile line 304,
\* spherical_profile_3d line 217.
AllTasksCompleted(r) ==
  IF script = Comparison
  THEN r.success_subplots = "True"
       /\ (r.success_video = "True" \/ r.success_pdf = "True")
  ELSE r.success_video = "True"

\* __main__, the final banner: comparision_profile lines 304-318,
\* spherical_profile_3d lines 217-242.
MainBanner ==
  /\ script \in CombineScripts
  /\ at = "banner"
  /\ at' = "done"
  /\ IF AllTasksCompleted(run)
     THEN /\ run' = [run EXCEPT !.banner = "SUCCESS", !.status = "0"]
          /\ log' = log \o Line(307, 220)
     ELSE /\ run' = [run EXCEPT !.banner = "failed", !.status = "0"]
          /\ log' = log \o Line(317, 231)
  /\ UNCHANGED <<script, disk, env, made, profiles>>

NextCombine ==
  \/ VerifyFolders
  \/ CreateSubplotsEnter \/ CreateSubplotsStep \/ CreateSubplotsReturn
  \/ MainAfterSubplots
  \/ CreateVideoEnter \/ CreateVideoFrame \/ CreateVideoReturn
  \/ convert_images_to_pdf
  \/ MainBanner

SpecCombine == InitCombine /\ [][NextCombine]_vars


----------------------------------------------------------------------------
(* Properties.                                                             *)

\* The call printed the warning of lines 77-78 (a bracketed term is negative).
Warned(o) == \E i \in DOMAIN o.p : o.p[i] = 77
HasNaN(v) == \E i \in DOMAIN v : IsNaN(v[i])

\* C1: when a bracketed term of rho is negative, rho flags it before it
\* takes the fractional power (the warning is the first thing the call
\* does) and returns no NaN as a density.
C1_NegativeTermFlaggedBeforePower ==
  (out.fn = "rho" /\ Warned(out)) => (out.p[1] = 77 /\ ~HasNaN(out.v))

\* A cooling table that is missing, empty, holds text that is no number, or
\* a line that has not two columns.
Malformed(f) ==
  \/ ~f.exists
  \/ DataLines(f) = <<>>
  \/ \E i \in DOMAIN f.lines : Len(f.lines[i]) \notin {0, 2}
  \/ \E i \in DOMAIN f.lines : \E j \in DOMAIN f.lines[i] : ~f.lines[i][j].num

\* C2: with a missing, malformed or empty cooling table the run evaluates no
\* profile function and writes no plot; the table is loaded once, and the
\* file is closed when the first profile function is evaluated.
C2_BadTableAbortsBeforeEvaluation ==
  script = "polytropic" =>
    /\ Malformed(file) => (out = NoCall /\ ~saved)
    /\ loads <= 1
    /\ out # NoCall => (loads = 1 /\ ~fileOpen)

\* C3: with epsilon = 0 the isothermal density_profile, which evaluates
\* Phi(0), is never evaluated (pressure_profile and temperature_profile
\* evaluate it too).
C3_ZeroSofteningRejected ==
  (script = "isothermal" /\ globals.epsilon = Zero) =>
    out.fn \notin {"density_profile", "pressure_profile", "temperature_profile"}

Min(a, b) == IF a <= b THEN a ELSE b
Max(a, b) == IF a >= b THEN a ELSE b

\* |a - b| <= k * 2^e0 for finite numbers a and b of Prec bits whose units
\* in the last place are at most 2^(2 * Prec + 8) apart from each other and
\* from 2^e0 (false beyond that).
WithinAt(a, b, e0, k) ==
  /\ IsFinite(a) /\ IsFinite(b)
  /\ LET ea == IF a.m = 0 THEN e0 ELSE a.e
         eb == IF b.m = 0 THEN e0 ELSE b.e
         lo == Min(Min(ea, eb), e0)
     IN /\ Max(Max(ea, eb), e0) - lo <= 2 * Prec + 8
        /\ Abs(a.m * 2^(ea - lo) - b.m * 2^(eb - lo)) <= k * 2^(e0 - lo)

\* a is within k units in the last place of b, b # 0.
WithinUlps(a, b, k) == b.m # 0 /\ WithinAt(a, b, b.e, k)

\* The parameter sets C4 admits: M_bh > 0, epsilon > 0, K > 0, gamma # 1.
Admissible(g) ==
  /\ FLt(Zero, g.M_bh) /\ FLt(Zero, g.epsilon) /\ FLt(Zero, g.K)
  /\ g.gq[1] # g.gq[2]

KLine37(g) ==
  FMul(FDiv(FMul(g.kB, g.T_vir), FMul(g.mu, g.mp)), QPow(g.rho_vir, QOneMinus(g.gq)))

\* The density rho returns for radii[i] is a positive finite number.
DensityValid(i) ==
  \E d \in {Call("rho", <<globals, radii>>).v[i]} : IsFinite(d) /\ d.m > 0

\* C5 as stated: entropy(r) equals K at every radius.
C5_EntropyEqualsK ==
  out.fn = "entropy" => \A i \in DOMAIN out.v : FEq(out.v[i], globals.K)

\* C5: K is the value line 37 gives it, in every state; entropy(r) is
\* within two units in the last place of K where rho(r) is a positive
\* finite number, and NaN elsewhere.
C5_EntropyNearK ==
  /\ script = "polytropic" => globals.K = KLine37(globals)
  /\ out.fn = "entropy" =>
       \A i \in DOMAIN out.v :
         IF DensityValid(i) THEN WithinUlps(out.v[i], globals.K, 2)
         ELSE IsNaN(out.v[i])

\* entropy has been evaluated for gamma > 1 and epsilon > 0 at a radius
\* beyond r_vir where rho(r) is a positive finite number, and is not K there.
C5_Witness ==
  /\ out.fn = "entropy" /\ Admissible(globals) /\ ~Warned(out)
  /\ \E i \in DOMAIN out.v :
       /\ FLt(globals.r_vir, radii[i])
       /\ DensityValid(i)
       /\ ~FEq(out.v[i], globals.K)
       /\ WithinUlps(out.v[i], globals.K, 2)

\* rho0*exp(Phi(0)/cs_amb^2), the density far from the black hole.
DensityFloor(g) ==
  FMul(g.rho0, FExp(FDiv(Phi_iso(g, Zero), FPow(g.cs_amb, 2, 1))))

\* C6: density_profile(0) == rho0, and density_profile does not increase
\* outward, is strictly positive and is not below rho0*exp(Phi(0)/cs_amb^2).
C6_IsothermalDensity ==
  out.fn = "density_profile" =>
    /\ radii[1] = Zero => FEq(out.v[1], globals.rho0)
    /\ \A i \in DOMAIN out.v : \A j \in DOMAIN out.v :
         i <= j => FLe(out.v[j], out.v[i])
    /\ \A i \in DOMAIN out.v :
         FLt(Zero, out.v[i]) /\ FLe(DensityFloor(globals), out.v[i])

\* A call of Phi, of either script, with epsilon > 0 and M_bh > 0.
PhiCalled ==
  /\ out.fn \in {"Phi", "isothermal.Phi"}
  /\ FLt(Zero, globals.epsilon) /\ FLt(Zero, globals.M_bh)

\* -G*M_bh/epsilon
PhiCentre(g) == FDiv(FMul(FMul(MinusOne, g.G), g.M_bh), g.epsilon)

\* C7 as stated: Phi is finite, strictly negative and strictly increasing
\* in r, and Phi(0) = -G*M_bh/epsilon.
C7_PotentialStrictlyIncreasing ==
  PhiCalled =>
    /\ \A i \in DOMAIN out.v : IsFinite(out.v[i]) /\ FLt(out.v[i], Zero)
    /\ \A i \in DOMAIN out.v : \A j \in DOMAIN out.v :
         FLt(radii[i], radii[j]) => FLt(out.v[i], out.v[j])
    /\ radii[1] = Zero => FEq(out.v[1], PhiCentre(globals))

\* C7: Phi is finite, strictly negative and non-decreasing in r, it is
\* nowhere below -G*M_bh/epsilon, and Phi(0) is -G*M_bh/epsilon.
C7_PotentialNonDecreasing ==
  PhiCalled =>
    /\ \A i \in DOMAIN out.v : IsFinite(out.v[i]) /\ FLt(out.v[i], Zero)
    /\ \A i \in DOMAIN out.v : \A j \in DOMAIN out.v :
         FLt(radii[i], radii[j]) => FLe(out.v[i], out.v[j])
    /\ \A i \in DOMAIN out.v : FLe(PhiCentre(globals), out.v[i])
    /\ radii[1] = Zero => FEq(out.v[1], PhiCentre(globals))

\* Phi has been evaluated at r = 0 and at a radius above 0 and has returned
\* the same finite negative number for both.
C7_Witness ==
  /\ PhiCalled
  /\ radii[1] = Zero /\ FLt(Zero, radii[2])
  /\ IsFinite(out.v[1]) /\ FLt(out.v[1], Zero)
  /\ FEq(out.v[1], out.v[2])

\* Every tabulated temperature has been looked up: cool_lambda(T_tab).
TableLookedUp == out.fn = "cool_lambda" /\ tq = tab.T_tab

\* The rows of the table have different temperatures.
DistinctTemperatures ==
  \A i \in DOMAIN tab.T_tab : \A j \in DOMAIN tab.T_tab :
    i # j => tab.T_tab[i] # tab.T_tab[j]

\* The place of the temperature t among the sorted temperatures.
Rank(t) == Cardinality({i \in DOMAIN tab.x : FLe(tab.x[i], t)})

\* C8 as stated: cool_lambda(T_tab[i]) == Lambda_tab[i] for every row i,
\* whatever the order of the rows.
C8_InterpolantExact ==
  TableLookedUp => \A i \in DOMAIN tq : FEq(out.v[i], tab.Lambda_tab[i])

\* C8: for a table of different temperatures in any row order,
\* cool_lambda(T_tab[i]) is Lambda_tab[i] at the lowest temperature and
\* elsewhere within three units in the last place of the larger of
\* Lambda_tab[i] and the Lambda of the next lower temperature.
C8_InterpolantNearTable ==
  (TableLookedUp /\ DistinctTemperatures) =>
    \A i \in DOMAIN tq :
      \E k \in {Rank(tq[i])} :
        IF k = 1 THEN FEq(out.v[i], tab.Lambda_tab[i])
        ELSE WithinAt(out.v[i], tab.Lambda_tab[i],
                      Max(tab.y[k - 1].e, tab.y[k].e), 3)

\* A table whose rows are not in ascending order of temperature has been
\* looked up at its own temperatures, and a value returned is not the
\* tabulated one.
C8_Witness ==
  /\ TableLookedUp /\ DistinctTemperatures
  /\ \E i \in DOMAIN tq : i > 1 /\ FLt(tq[i], tq[i - 1])
  /\ \E i \in DOMAIN tq :
       /\ ~FEq(out.v[i], tab.Lambda_tab[i])
       /\ WithinAt(out.v[i], tab.Lambda_tab[i],
                   Max(tab.y[Rank(tq[i]) - 1].e, tab.y[Rank(tq[i])].e), 3)

\* The temperature t is outside the tabulated range.
OutOfRange(t) == FLt(t, tab.x[1]) \/ FLt(Last(tab.x), t)

\* C9: a lookup outside the tabulated range returns a value, and the result
\* shows that the sample is out of range: the sample is marked (NaN) or the
\* call reports it.
C9_OutOfRangeDistinguishable ==
  out.fn = "cool_lambda" =>
    \A i \in DOMAIN tq :
      OutOfRange(tq[i]) => (IsNaN(out.v[i]) \/ out.p # <<>>)

\* The scenario of C10: M_bh = 2e7 Msun, v_bh = 1000 km/s, T_amb = 1e7 K.
BondiScenario ==
  /\ globals.M_bh = FMul(Dec(2, 7), Msun)
  /\ globals.v_bh = FMul(Dec(1000, 0), Dec(1, 5))
  /\ script = "isothermal" => globals.T_amb = Dec(1, 7)

\* C10: in the scenario, the R_bondi of every script is
\* 2*G*M_bh/(cs_amb^2 + v_bh^2) with cs_amb = sqrt(kB*T_amb/(mu*mp)), a
\* positive finite number.
C10_BondiRadiusClosedForm ==
  BondiScenario =>
    /\ globals.R_bondi = IsothermalBondi(Constants, globals.M_bh, Dec(1, 7))
    /\ IsFinite(globals.R_bondi) /\ FLt(Zero, globals.R_bondi)

\* A quantity in code units taken back to physical units.
FromCode(y, scale) == FMul(y, scale)

\* K and G taken back from K_code and G_code.
KFromCode(g) == FDiv(FMul(g.K_code, g.P_code), QPow(g.rho_code, g.gq))
GFromCode(g) == FDiv(g.G_code, FMul(g.rho_code, FPow(g.t_code, 2, 1)))

\* The unit_conversion script has printed its parameters in code units.
ParametersConverted == script = "unit_conversion" /\ out.fn = "parameters"

\* The pressures of lines 81-84 in code units (lines 83-84).
PressureConversions(g) ==
  << [q |-> g.P_cgm, s |-> g.P_code], [q |-> g.P_vir, s |-> g.P_code] >>

\* C11 as stated: every quantity printed in code units, taken back to
\* physical units, is the original value exactly, and K and G are exactly
\* what K_code and G_code convert back to.
C11_RoundTripExact ==
  ParametersConverted =>
    /\ \A i \in DOMAIN out.v :
         FEq(FromCode(out.v[i], UnitConversions(globals)[i].s),
             UnitConversions(globals)[i].q)
    /\ \A i \in DOMAIN PressureConversions(globals) :
         \E c \in {PressureConversions(globals)[i]} :
           FEq(FromCode(ToCode(c.q, c.s), c.s), c.q)
    /\ FEq(KFromCode(globals), globals.K)
    /\ FEq(GFromCode(globals), globals.G)

\* C11: every quantity printed in code units, taken back to physical units,
\* is within two units in the last place of the original value, for each of
\* the scales L_code, v_code, rho_code, M_code, P_code and T_code; K_code
\* converts back to K within four units in the last place and G_code to G
\* within two.
C11_RoundTripWithinTolerance ==
  ParametersConverted =>
    /\ Len(out.v) = Len(UnitConversions(globals))
    /\ \A i \in DOMAIN out.v :
         WithinUlps(FromCode(out.v[i], UnitConversions(globals)[i].s),
                    UnitConversions(globals)[i].q, 2)
    /\ \A i \in DOMAIN PressureConversions(globals) :
         \E c \in {PressureConversions(globals)[i]} :
           WithinUlps(FromCode(ToCode(c.q, c.s), c.s), c.q, 2)
    /\ WithinUlps(KFromCode(globals), globals.K, 4)
    /\ WithinUlps(GFromCode(globals), globals.G, 2)

\* The parameters have been printed in code units with scales that are not
\* those of lines 38-40, and one of them does not convert back exactly.
C11_Witness ==
  /\ ParametersConverted
  /\ globals.v_code # Dec(1, 6)
  /\ \E i \in DOMAIN out.v :
       ~FEq(FromCode(out.v[i], UnitConversions(globals)[i].s),
            UnitConversions(globals)[i].q)

\* The steps of polytropic_sol.py that call a profile function for a plot.
ProfileCallPoints ==
  {"density", "pressure", "potential", "temperature", "cooling", "freefall",
   "entropy"}

\* C12: a call of a profile function changes no module-level constant or
\* parameter and no table, returns what the previous call of the same
\* function with the same radii returned, and emits nothing.
C12_ProfileFunctionsPure ==
  [][(script = "polytropic" /\ at \in ProfileCallPoints) =>
       /\ globals' = globals /\ data' = data /\ tab' = tab /\ radii' = radii
       /\ (out.fn = out'.fn => out'.v = out.v)
       /\ out'.p = <<>>]_vars

\* The unit_conversion script has computed P_cgm and P_vir (lines 81-82).
PressuresComputed == script = "unit_conversion" /\ out.fn = "P_vir"

SubplotsEntered ==
  /\ script \in CombineScripts /\ env.entry = "__main__"
  /\ at \notin {"verify", "subplots"}
  /\ FolderSet(script) \subseteq disk.folders

\* The composites the run has saved for time step t.
Composites(t) ==
  {i \in DOMAIN made : "png" \in DOMAIN made[i] /\ made[i].png = FileName(t)}

\* The composite saved for time step t shows the image of every folder that
\* has a readable one and a placeholder for every other.
PanelsPlaced(t) ==
  \A i \in Composites(t) : \A k \in DOMAIN FOLDERS(script) :
    made[i].panels[k] = "image" <=> disk.images[<<FOLDERS(script)[k], t>>] = "ok"

\* C13 restricted to a script: create_subplots runs to its end whatever
\* input images are missing or unreadable, saves exactly one composite for
\* each time step it has passed, with placeholders for the missing and the
\* unreadable panels, and returns True.
CompositePerTimeStep(s) ==
  (SubplotsEntered /\ script = s) =>
    /\ at # "crashed"
    /\ run.success_subplots = IF at = "compose" THEN "unset" ELSE "True"
    /\ \A t \in 0..(NUM_FILES - 1) :
         IF at = "compose" /\ t >= run.t THEN Composites(t) = {}
         ELSE Cardinality(Composites(t)) = 1 /\ PanelsPlaced(t)
                /\ FileName(t) \in DOMAIN disk.data.files

\* C13: in both scripts create_subplots saves exactly one composite
\* data/t_<t>.png for each time step and returns True, for every subset of
\* input images that is missing or unreadable.
C13_CompositePerTimeStep ==
  CompositePerTimeStep(Spherical) /\ CompositePerTimeStep(Comparison)

\* The script is run as __main__ and a folder of FOLDERS does not exist.
FolderMissing ==
  /\ script \in CombineScripts /\ env.entry = "__main__"
  /\ ~(FolderSet(script) \subseteq disk.folders)

\* A step after the verification of the folders has run or left something.
LaterStepRan ==
  \/ made # <<>> \/ disk.data \notin StaleFolders
  \/ disk.video.exists \/ disk.pdf
  \/ run.success_subplots # "unset" \/ run.success_video # "unset"
  \/ run.success_pdf # "unset" \/ run.banner # "none"

\* The video step or the PDF step has been entered.
VideoOrPdfEntered ==
  \/ at \in {"frames", "pdf", "banner", "done"}
  \/ run.success_video # "unset" \/ run.success_pdf # "unset"
  \/ disk.video.exists \/ disk.pdf

\* C14: the main sequence checks every folder of FOLDERS first; with one
\* missing it exits with status 1 and no later step has run (no output
\* folder, composite, video or PDF is made); the video and the PDF step run
\* only after create_subplots returned True.
C14_FoldersVerifiedFirst ==
  (script \in CombineScripts /\ env.entry = "__main__") =>
    /\ FolderMissing =>
         /\ at \in {"verify", "exited"} /\ ~LaterStepRan
         /\ at = "exited" => run.status = "1"
    /\ (at = "video" \/ VideoOrPdfEntered) => run.success_subplots = "True"

\* comparision_profile has exited with status 1 because velr is missing,
\* dens being there.
C14_Witness ==
  /\ FolderMissing /\ script = Comparison
  /\ "dens" \in disk.folders /\ "velr" \notin disk.folders
  /\ "time_scales" \in disk.folders
  /\ at = "exited" /\ run.status = "1"

\* The time index n of the file t_<n>.png.
TimeIndex(name) == CHOOSE n \in 0..99 : FileName(n) = name

\* The files of the data folder, and those of them that can be read.
DataNames == DOMAIN disk.data.files
Readable == {n \in DataNames : disk.data.files[n] = "ok"}

\* The first image: the file of the data folder with the lowest time index.
FirstImage(n) ==
  n \in DataNames /\ \A m \in DataNames : TimeIndex(n) <= TimeIndex(m)

\* create_video_from_subplots has been entered.
VideoEntered == at = "frames" \/ run.success_video # "unset"

\* The frames written to the video, as a set.
FramesWritten == {disk.video.frames[i] : i \in DOMAIN disk.video.frames}

\* C15: the frames are written in strictly ascending order of the time
\* index in the file name; when create_video_from_subplots returns True
\* they are the readable files of the data folder, an unreadable one being
\* skipped; it returns False and writes no frame when the folder is absent,
\* holds no PNG, or the first image is unreadable.
C15_FramesInNumericOrder ==
  script \in CombineScripts =>
    /\ \A i, j \in DOMAIN disk.video.frames :
         i < j => TimeIndex(disk.video.frames[i]) < TimeIndex(disk.video.frames[j])
    /\ FramesWritten \subseteq Readable
    /\ at = "frames" =>
         \A n \in Readable :
           n \in FramesWritten <=>
             \E k \in 1..(run.idx - 1) : run.png_files[k] = n
    /\ run.success_video = "True" => FramesWritten = Readable
    /\ run.success_video = "False" =>
         disk.video.frames = <<>> /\ ~disk.video.exists
    /\ (VideoEntered /\ (~disk.data.exists \/ DataNames = {}
                         \/ \E n \in DataNames : FirstImage(n) /\ n \notin Readable))
         => run.success_video = "False"

\* create_video_from_subplots has returned True on a data folder with
\* t_2.png, t_10.png and t_11.png, of which t_10.png cannot be read: the
\* frames are t_2.png, then t_11.png.
C15_Witness ==
  /\ script \in CombineScripts /\ run.success_video = "True"
  /\ <<1, 0>> \in DataNames /\ <<1, 0>> \notin Readable
  /\ disk.video.frames = << <<2>>, <<1, 1>> >>

\* The three steps of comparision_profile all returned True.
AllThreeSucceeded ==
  /\ run.success_subplots = "True" /\ run.success_video = "True"
  /\ run.success_pdf = "True"

\* C16: comparision_profile prints the banner 'SUCCESS: ALL TASKS
\* COMPLETED!' only when create_subplots, create_video_from_subplots and
\* convert_images_to_pdf all returned True, and the 'Some tasks failed'
\* message when one of them failed.
C16_SuccessBannerMeansAllSucceeded ==
  (script = Comparison /\ run.banner # "none") =>
    IF AllThreeSucceeded THEN run.banner = "SUCCESS" ELSE run.banner = "failed"
=============================================================================
